---- MODULE Spec2Model ----
(***************************************************************************)
(* Model of the exact-odds engine for Exchange Hi Lo (src/prob.c) and of   *)
(* the query loop that drives it (src/main.c).                             *)
(*                                                                         *)
(* C `int` values are TLA+ integers kept in 32-bit two's complement.       *)
(* C `long`, `unsigned long` and GMP integers exceed the range of the      *)
(* model checker's integers for a deck of 13 (13! = 6227020800), so they   *)
(* are kept as little-endian sequences of base-10^4 limbs (a "Nat"), with  *)
(* a sign where the C type is signed (a "Z": [neg, mag]).                  *)
(***************************************************************************)
EXTENDS Integers, Sequences, FiniteSets, TLC

\* ------------------------------------------------------------------------
\* Multi-limb naturals: <<>> is 0, <<l1, ..., lk>> is l1 + l2*Base + ...,
\* every limb in 0..Base-1 and the top limb non-zero.
\* ------------------------------------------------------------------------
Base == 10^4

RECURSIVE NatTrim(_)
NatTrim(a) ==
  IF a = <<>> THEN <<>>
  ELSE IF a[Len(a)] = 0 THEN NatTrim(SubSeq(a, 1, Len(a) - 1))
  ELSE a

\* A non-negative model integer (below 2^31) as a Nat.
NatOf(n) ==
  NatTrim(<<n % Base, (n \div Base) % Base, n \div (Base * Base)>>)

HeadOr0(a) == IF a = <<>> THEN 0 ELSE Head(a)
TailOrEmpty(a) == IF a = <<>> THEN <<>> ELSE Tail(a)

RECURSIVE NatAddC(_, _, _)
NatAddC(a, b, s) ==
  IF a = <<>> /\ b = <<>> THEN (IF s = 0 THEN <<>> ELSE <<s>>)
  ELSE <<(HeadOr0(a) + HeadOr0(b) + s) % Base>>
       \o NatAddC(TailOrEmpty(a), TailOrEmpty(b),
                  (HeadOr0(a) + HeadOr0(b) + s) \div Base)

NatAdd(a, b) == NatAddC(a, b, 0)

\* -1, 0, 1 as a is below, equal to, above b; from position i down.
RECURSIVE NatCmpAt(_, _, _)
NatCmpAt(a, b, i) ==
  IF i = 0 THEN 0
  ELSE IF a[i] < b[i] THEN -1
  ELSE IF a[i] > b[i] THEN 1
  ELSE NatCmpAt(a, b, i - 1)

NatCmp(a, b) ==
  IF Len(a) < Len(b) THEN -1
  ELSE IF Len(a) > Len(b) THEN 1
  ELSE NatCmpAt(a, b, Len(a))

NatLeq(a, b) == NatCmp(a, b) <= 0

\* Limbs of a - b - borrow for a >= b + borrow, top zeros not yet removed.
RECURSIVE NatSubB(_, _, _)
NatSubB(a, b, borrow) ==
  IF a = <<>> THEN <<>>
  ELSE IF Head(a) - HeadOr0(b) - borrow < 0
  THEN <<Head(a) - HeadOr0(b) - borrow + Base>>
       \o NatSubB(Tail(a), TailOrEmpty(b), 1)
  ELSE <<Head(a) - HeadOr0(b) - borrow>>
       \o NatSubB(Tail(a), TailOrEmpty(b), 0)

\* a - b for a >= b.
NatSub(a, b) == NatTrim(NatSubB(a, b, 0))

\* Limbs of a * m + carry for model integers m, carry in 0..Base-1.
RECURSIVE NatMulLimbC(_, _, _)
NatMulLimbC(a, m, carry) ==
  IF a = <<>> THEN (IF carry = 0 THEN <<>> ELSE <<carry>>)
  ELSE <<(Head(a) * m + carry) % Base>>
       \o NatMulLimbC(Tail(a), m, (Head(a) * m + carry) \div Base)

\* a * m for a model integer m in 0..Base-1.
NatMulLimb(a, m) == IF m = 0 THEN <<>> ELSE NatMulLimbC(a, m, 0)

\* a * Base.
NatShift(a) == IF a = <<>> THEN <<>> ELSE <<0>> \o a

RECURSIVE NatMul(_, _)
NatMul(a, b) ==
  IF b = <<>> \/ a = <<>> THEN <<>>
  ELSE NatAddC(NatMulLimb(a, Head(b)), NatShift(NatMul(a, Tail(b))), 0)

\* One limb of short division by the model integer d: high is <<quotient
\* limbs, remainder>> of the limbs above limb.
ShortDivStep(high, limb, d) ==
  <<<<(high[2] * Base + limb) \div d>> \o high[1],
    (high[2] * Base + limb) % d>>

\* <<quotient limbs, remainder>> of a by a model integer d in 1..Base-1.
RECURSIVE NatDivModLimb(_, _)
NatDivModLimb(a, d) ==
  IF a = <<>> THEN <<(<<>>), 0>>
  ELSE CHOOSE r \in {ShortDivStep(high, Head(a), d) :
                       high \in {NatDivModLimb(Tail(a), d)}} : TRUE

\* The two limbs of r at and above position n, as a model integer.
TopTwo(r, n) ==
  (IF Len(r) > n THEN r[n + 1] * Base ELSE 0)
  + (IF Len(r) >= n THEN r[n] ELSE 0)

\* The largest q in lo..hi with q * b <= r, given lo * b <= r.
RECURSIVE QuotientDigit(_, _, _, _)
QuotientDigit(r, b, lo, hi) ==
  IF lo >= hi THEN lo
  ELSE CHOOSE q \in
         {IF NatLeq(NatMulLimb(b, mid), r)
          THEN QuotientDigit(r, b, mid, hi)
          ELSE QuotientDigit(r, b, lo, mid - 1) :
            mid \in {(lo + hi + 1) \div 2}} : TRUE

\* The quotient of r by b for r < b * Base, found between the estimates
\* the top limbs give.
QuotientOf(r, b) ==
  IF NatCmp(r, b) < 0 THEN 0
  ELSE QuotientDigit(
         r, b, TopTwo(r, Len(b)) \div (b[Len(b)] + 1),
         IF TopTwo(r, Len(b)) \div b[Len(b)] < Base
         THEN TopTwo(r, Len(b)) \div b[Len(b)] ELSE Base - 1)

\* <<digit and the quotient limbs above it, r - digit * b>>
LongDivDigit(quotient, r, b) ==
  CHOOSE s \in {<<<<digit>> \o quotient, NatSub(r, NatMulLimb(b, digit))>> :
                  digit \in {QuotientOf(r, b)}} : TRUE

\* One limb of long division by b: high is <<quotient limbs, remainder>> of
\* the limbs above limb.
LongDivStep(high, limb, b) ==
  CHOOSE s \in {LongDivDigit(high[1], r, b) :
                  r \in {NatTrim(<<limb>> \o high[2])}} : TRUE

\* <<quotient limbs, remainder>> of a by b, b > 0.
RECURSIVE NatDivModLong(_, _)
NatDivModLong(a, b) ==
  IF a = <<>> THEN <<(<<>>), (<<>>)>>
  ELSE CHOOSE r \in {LongDivStep(high, Head(a), b) :
                       high \in {NatDivModLong(Tail(a), b)}} : TRUE

\* <<quotient, remainder>> of a by b, b > 0.
NatDivMod(a, b) ==
  IF NatCmp(a, b) < 0 THEN <<(<<>>), a>>
  ELSE IF Len(b) = 1
  THEN CHOOSE r \in {<<NatTrim(s[1]), NatOf(s[2])>> :
                       s \in {NatDivModLimb(a, b[1])}} : TRUE
  ELSE CHOOSE r \in {<<NatTrim(s[1]), s[2]>> :
                       s \in {NatDivModLong(a, b)}} : TRUE

NatDiv(a, b) == NatDivMod(a, b)[1]
NatMod(a, b) == NatDivMod(a, b)[2]

\* A Nat below 2^31 as a model integer.
IntOfNat(a) ==
  HeadOr0(a) + Base * HeadOr0(TailOrEmpty(a))
  + Base * Base * HeadOr0(TailOrEmpty(TailOrEmpty(a)))

\* Euclid's algorithm on model integers.
RECURSIVE GcdInt(_, _)
GcdInt(m, n) ==
  IF n = 0 THEN m
  ELSE CHOOSE g \in {GcdInt(n, r) : r \in {m % n}} : TRUE

\* Euclid's algorithm, on model integers once both numbers are below 2^31.
RECURSIVE NatGcd(_, _)
NatGcd(a, b) ==
  IF b = <<>> THEN a
  ELSE IF NatCmp(a, <<3647, 4748, 21>>) <= 0
          /\ NatCmp(b, <<3647, 4748, 21>>) <= 0
  THEN NatOf(GcdInt(IntOfNat(a), IntOfNat(b)))
  ELSE CHOOSE g \in {NatGcd(b, r) : r \in {NatDivMod(a, b)[2]}} : TRUE

\* ------------------------------------------------------------------------
\* Signed integers of any size: [neg, mag], mag a Nat, zero never negative.
\* ------------------------------------------------------------------------
ZMake(neg, mag) == [neg |-> neg /\ mag # <<>>, mag |-> mag]

ZOfNat(a) == [neg |-> FALSE, mag |-> a]

ZAdd(x, y) ==
  IF x.neg = y.neg THEN ZMake(x.neg, NatAddC(x.mag, y.mag, 0))
  ELSE IF NatCmp(x.mag, y.mag) >= 0 THEN ZMake(x.neg, NatSub(x.mag, y.mag))
  ELSE ZMake(y.neg, NatSub(y.mag, x.mag))

ZMul(x, y) == ZMake(x.neg # y.neg, NatMul(x.mag, y.mag))

\* ------------------------------------------------------------------------
\* Fixed-width C arithmetic.  Every operation gives <<value, overflowed>>:
\* the value the two's-complement machine leaves and whether the exact
\* result fell outside the type.
\* ------------------------------------------------------------------------
INT_MAX == (2^30 - 1) + 2^30
INT_MIN == (-INT_MAX) - 1

IntAdd(a, b) ==
  IF b > 0 /\ a > INT_MAX - b
  THEN <<(a - INT_MAX - 1) + (b - INT_MAX - 1), TRUE>>
  ELSE IF b < 0 /\ a < INT_MIN - b
  THEN <<(a + INT_MAX + 1) + (b + INT_MAX + 1), TRUE>>
  ELSE <<a + b, FALSE>>

\* x + y for two results x, y of int operations, overflows carried along.
IntAddOv(x, y) ==
  <<IntAdd(x[1], y[1])[1], x[2] \/ y[2] \/ IntAdd(x[1], y[1])[2]>>

IntDouble(x) == IntAddOv(x, x)

\* a * m for an int a and an int m >= 0.
RECURSIVE IntMul(_, _)
IntMul(a, m) ==
  IF m = 0 THEN <<0, FALSE>>
  ELSE IF m % 2 = 1
  THEN IntAddOv(IntDouble(IntMul(a, m \div 2)), <<a, FALSE>>)
  ELSE IntDouble(IntMul(a, m \div 2))

\* An int converted to long (always exact).
ZOfInt(n) ==
  IF n >= 0 THEN [neg |-> FALSE, mag |-> NatOf(n)]
  ELSE IF n = INT_MIN THEN [neg |-> TRUE, mag |-> <<3648, 4748, 21>>]
  ELSE [neg |-> TRUE, mag |-> NatOf(-n)]

LONG_MAX == <<5807, 5477, 3685, 3720, 922>>       \* 2^63 - 1
ULONG_MAX == <<1615, 955, 7370, 4407, 1844>>     \* 2^64 - 1
TwoTo64 == <<1616, 955, 7370, 4407, 1844>>       \* 2^64

\* The unsigned long holding the low 64 bits of z in two's complement.
ULongOf(z) ==
  IF NatCmp(z.mag, TwoTo64) < 0
  THEN (IF z.neg THEN NatSub(TwoTo64, z.mag) ELSE z.mag)
  ELSE IF z.neg /\ NatDivMod(z.mag, TwoTo64)[2] # <<>>
  THEN NatSub(TwoTo64, NatDivMod(z.mag, TwoTo64)[2])
  ELSE NatDivMod(z.mag, TwoTo64)[2]

\* The long whose bits are those of the unsigned long u.
LongOfBits(u) ==
  IF NatCmp(u, LONG_MAX) <= 0 THEN [neg |-> FALSE, mag |-> u]
  ELSE [neg |-> TRUE, mag |-> NatSub(TwoTo64, u)]

\* The long holding the low 64 bits of z.
LongWrap(z) ==
  IF NatCmp(z.mag, LONG_MAX) <= 0 THEN z ELSE LongOfBits(ULongOf(z))

\* The exact result e stored in a long: <<value, overflowed>>.
LongStore(e) ==
  CHOOSE r \in {<<LongWrap(v), LongWrap(v) # v>> : v \in {e}} : TRUE

LongAdd(x, y) == LongStore(ZAdd(x, y))

LongMul(x, y) == LongStore(ZMul(x, y))

\* ------------------------------------------------------------------------
\* GMP rationals (mpq_t): [num, den], num a Z, den a Nat.
\* ------------------------------------------------------------------------
\* mpq_init
QZero == [num |-> [neg |-> FALSE, mag |-> <<>>], den |-> <<1>>]

\* num/den divided through by g.
QReduce(num, den, g) ==
  IF g = <<1>> THEN [num |-> num, den |-> den]
  ELSE [num |-> [neg |-> num.neg, mag |-> NatDivMod(num.mag, g)[1]],
        den |-> NatDivMod(den, g)[1]]

\* mpq_set_si(q, num, den); mpq_canonicalize(q): lowest terms, 0 as 0/1.
QCanon(num, den) ==
  CHOOSE q \in {QReduce(num, den, g) : g \in {NatGcd(num.mag, den)}} : TRUE

\* mpq_add for denominators with gcd g > 1: t is
\* a.num * (b.den / g) + b.num * (a.den / g), g2 is gcd(t, g).
QAddReduced(a, b, g, t, g2) ==
  [num |-> [neg |-> t.neg, mag |-> NatDiv(t.mag, g2)],
   den |-> NatMul(NatDiv(a.den, g), NatDiv(b.den, g2))]

QAddCommon(a, b, g) ==
  CHOOSE q \in
    {QAddReduced(a, b, g, t, IF t.mag = <<>> THEN g ELSE NatGcd(t.mag, g)) :
       t \in {ZAdd(ZMul(a.num, ZOfNat(NatDiv(b.den, g))),
                   ZMul(b.num, ZOfNat(NatDiv(a.den, g))))}} : TRUE

\* mpq_add: the canonical sum of two canonical rationals.
QAdd(a, b) ==
  CHOOSE q \in
    {IF g = <<1>>
     THEN [num |-> ZAdd(ZMul(a.num, ZOfNat(b.den)), ZMul(b.num, ZOfNat(a.den))),
           den |-> NatMul(a.den, b.den)]
     ELSE QAddCommon(a, b, g) : g \in {NatGcd(a.den, b.den)}} : TRUE

\* mpz_get_ui: the low 64 bits of the absolute value.
mpz_get_ui(z) ==
  IF NatCmp(z.mag, TwoTo64) < 0 THEN z.mag ELSE NatDivMod(z.mag, TwoTo64)[2]

\* ------------------------------------------------------------------------
\* src/prob.c, function by function.  Arrays are functions on 0..n-1, as
\* the C code indexes them.
\* ------------------------------------------------------------------------
MAX_SIZE == 13

getLengthOfProbabilities(size) == size - 1

getLengthOfPermutations(size) == size - 2

\* calloc'ed: size-1 rows, row i with size-i zeroed entries.
createMatrix(size) ==
  [i \in 0..(size - 2) |-> [j \in 0..(size - i - 1) |-> 0]]

createProbabilities(size) ==
  [i \in 0..(getLengthOfProbabilities(size) - 1) |-> QZero]

createPermutations(size) ==
  [i \in 0..(getLengthOfPermutations(size) - 1) |->
     [neg |-> FALSE, mag |-> <<>>]]

createProbabilitiesResult(size) ==
  [i \in 0..(getLengthOfProbabilities(size) - 1) |-> <<>>]

\* A variant that marks the side holding fewer cards.
FirstStageRangeMinority(size, numberLower) ==
  LET numberHigher == size - numberLower
  IN  IF numberHigher >= numberLower THEN <<0, numberLower>>
      ELSE <<numberLower, size>>

\* <<k, l>>: initialiseFirstStage stores 1 at the indices k..l-1 of row 0.
FirstStageRange(size, numberLower) ==
  LET numberHigher == size - numberLower
  IN  IF numberHigher >= numberLower THEN <<numberLower, size>>
      ELSE <<0, numberLower>>

\* The loop "for (i = k; i < l; i++) row[i] = 1", stores inside the row.
StoreOnes(row, k, l) ==
  [i \in DOMAIN row |-> IF k <= i /\ i < l THEN 1 ELSE row[i]]

\* The stores of initialiseFirstStage that fall inside row 0.
initialiseFirstStage(matrix, size, numberLower) ==
  [matrix EXCEPT ![0] = StoreOnes(@, FirstStageRange(size, numberLower)[1],
                                  FirstStageRange(size, numberLower)[2])]

\* initialiseFirstStage stores outside the size entries of row 0.
FirstStageOutOfBounds(size, numberLower) ==
  \E i \in FirstStageRange(size, numberLower)[1]
             ..(FirstStageRange(size, numberLower)[2] - 1) :
     i \notin 0..(size - 1)

getNumberCardsLeftAfterDealing(size, stage) == size - (stage + 1)

\* The loop "for (i = lo; i <= hi; i++) sum += row[i]" on an int sum;
\* acc is <<sum, overflowed>>.
RECURSIVE SumRow(_, _, _, _)
SumRow(row, lo, hi, acc) ==
  IF lo > hi THEN acc
  ELSE CHOOSE sum \in {SumRow(row, lo + 1, hi, next) :
                          next \in {IntAddOv(acc, <<row[lo], FALSE>>)}} : TRUE

\* A variant of the case split that drops the branch for an odd count with
\* numberLower = limit.
PathsCutPointsNoMiddleCase(numberCardsLeftBeforeDealing, numberLower) ==
  LET limit == (numberCardsLeftBeforeDealing + 1) \div 2
  IN  IF numberCardsLeftBeforeDealing % 2 = 0
      THEN IF numberLower <= limit
           THEN <<numberLower + 1, limit + 1>>
           ELSE <<limit + 1, numberLower + 1>>
      ELSE IF numberLower <= limit THEN <<numberLower + 1, limit>>
           ELSE <<limit, numberLower + 1>>

\* <<k, l>> of getNumberPathsLeadingTo.
PathsCutPoints(numberCardsLeftBeforeDealing, numberLower) ==
  LET limit == (numberCardsLeftBeforeDealing + 1) \div 2
  IN  IF numberCardsLeftBeforeDealing % 2 = 0
      THEN IF numberLower <= limit
           THEN <<numberLower + 1, limit + 1>>
           ELSE <<limit + 1, numberLower + 1>>
      ELSE IF numberLower < limit THEN <<numberLower + 1, limit>>
           ELSE IF numberLower = limit THEN <<limit, limit + 1>>
           ELSE <<limit, numberLower + 1>>

\* The two loops of getNumberPathsLeadingTo over the previous row.
SumTwoRanges(row, k, l, numberCardsLeftBeforeDealing) ==
  SumRow(row, l, numberCardsLeftBeforeDealing,
         SumRow(row, 0, k - 1, <<0, FALSE>>))

\* <<sum, overflowed>>
getNumberPathsLeadingTo(matrix, size, stage, numberLower) ==
  LET previousStage == stage - 1
      numberCardsLeftBeforeDealing ==
        getNumberCardsLeftAfterDealing(size, previousStage)
  IN  SumTwoRanges(matrix[previousStage],
                   PathsCutPoints(numberCardsLeftBeforeDealing, numberLower)[1],
                   PathsCutPoints(numberCardsLeftBeforeDealing, numberLower)[2],
                   numberCardsLeftBeforeDealing)

\* The new row and the overflow flag from the <<sum, overflowed>> of each
\* entry.
StoreStage(matrix, stage, paths) ==
  <<[matrix EXCEPT ![stage] = [i \in DOMAIN paths |-> paths[i][1]]],
    \E i \in DOMAIN paths : paths[i][2]>>

\* <<matrix, overflowed>>
initialiseStage(matrix, size, stage) ==
  StoreStage(matrix, stage,
             [i \in 0..getNumberCardsLeftAfterDealing(size, stage) |->
                getNumberPathsLeadingTo(matrix, size, stage, i)])

\* The loop of calculateMatrix from stage on.
RECURSIVE CalculateMatrixFrom(_, _, _)
CalculateMatrixFrom(matrix, size, stage) ==
  IF stage < size - 1
  THEN CHOOSE done \in {CalculateMatrixFrom(next[1], size, stage + 1) :
                          next \in {initialiseStage(matrix, size, stage)}} :
         TRUE
  ELSE matrix

calculateMatrix(matrix, size, numberLower) ==
  CHOOSE done \in {CalculateMatrixFrom(first, size, 1) :
                     first \in {initialiseFirstStage(matrix, size,
                                                     numberLower)}} : TRUE

\* A variant that counts the cards of the majority side.
numberFailingCardsMajority(numberCardsLeft, numberLower) ==
  LET numberHigher == (numberCardsLeft - numberLower) - 1
  IN  IF numberHigher >= numberLower THEN numberHigher ELSE numberLower

\* A variant that counts the card just dealt among the higher ones.
numberFailingCardsWithLast(numberCardsLeft, numberLower) ==
  LET numberHigher == numberCardsLeft - numberLower
  IN  IF numberHigher >= numberLower THEN numberLower ELSE numberHigher

numberFailingCards(numberCardsLeft, numberLower) ==
  LET numberHigher == (numberCardsLeft - numberLower) - 1
  IN  IF numberHigher >= numberLower THEN numberLower ELSE numberHigher

\* permutations[0] = size * (size - 1), an int product stored in a long:
\* <<value, overflowed>>.
PermutationFirst(size) ==
  <<ZOfInt(IntMul(size, size - 1)[1]), IntMul(size, size - 1)[2]>>

\* The previous entry as an int (it fits one after an int product).
IntOfZ(z) ==
  (IF z.neg THEN -1 ELSE 1) * IntOfNat(z.mag)

\* A variant that computes the product in int.
PermutationNextInt(previous, size, i) ==
  <<ZOfInt(IntMul(IntOfZ(previous), (size - i) - 1)[1]),
    IntMul(IntOfZ(previous), (size - i) - 1)[2]>>

\* A variant whose factor is one too large.
PermutationNextOneMore(previous, size, i) ==
  LongMul(previous, ZOfInt(size - i))

\* permutations[i] = permutations[i - 1] * ((size - i) - 1), a long
\* product: <<value, overflowed>>.
PermutationNext(previous, size, i) ==
  LongMul(previous, ZOfInt((size - i) - 1))

\* r is <<permutations, overflowed>>; m, as <<value, overflowed>>, is stored
\* in permutations[i].
StorePermutation(r, i, m) ==
  <<[r[1] EXCEPT ![i] = m[1]], r[2] \/ m[2]>>

\* The loop of calculatePermutations from index i on.
RECURSIVE PermutationsFrom(_, _, _)
PermutationsFrom(r, size, i) ==
  IF i < getLengthOfPermutations(size)
  THEN CHOOSE done \in
         {PermutationsFrom(next, size, i + 1) :
            next \in {StorePermutation(
                        r, i, PermutationNext(r[1][i - 1], size, i))}} : TRUE
  ELSE r

\* <<permutations, overflowed>>
calculatePermutations(permutations, size) ==
  IF size > 0
  THEN PermutationsFrom(
         StorePermutation(<<permutations, FALSE>>, 0, PermutationFirst(size)),
         size, 1)
  ELSE <<permutations, FALSE>>

\* The store permutations[0] = ... happens whenever size > 0; the table has
\* getLengthOfPermutations(size) entries.
PermutationStoreOutOfBounds(size) ==
  size > 0 /\ 0 \notin 0..(getLengthOfPermutations(size) - 1)

getNumberShuffles(permutations, size) ==
  permutations[getLengthOfPermutations(size) - 1]

\* getNumberShuffles reads the entry before the start of an empty table.
ShufflesReadOutOfBounds(size) ==
  (getLengthOfPermutations(size) - 1)
    \notin 0..(getLengthOfPermutations(size) - 1)

\* What a read outside the table can return: a negative long, zero, a
\* positive long.
StrayLongs == {ZOfInt(v) : v \in (-1)..1}

\* The memory getNumberShuffles reads from when index i lies outside the
\* table: the table's entries, and stray at index i.
ReadBeyond(permutations, i, stray) ==
  [j \in (DOMAIN permutations) \cup {i} |->
     IF j \in DOMAIN permutations THEN permutations[j] ELSE stray]

\* "sum += product" on a long sum: acc is <<sum, overflowed>>, p the int
\* product as <<value, overflowed>>.
AddProduct(acc, p) ==
  <<LongAdd(acc[1], ZOfInt(p[1]))[1],
    acc[2] \/ p[2] \/ LongAdd(acc[1], ZOfInt(p[1]))[2]>>

\* The inner loop of calculateInitialProbabilities from numberLower on;
\* acc is <<sum, overflowed>>, sum a long.
RECURSIVE FailingSum(_, _, _, _)
FailingSum(row, numberCardsLeft, numberLower, acc) ==
  IF numberLower >= numberCardsLeft THEN acc
  ELSE CHOOSE sum \in
         {FailingSum(row, numberCardsLeft, numberLower + 1, next) :
            next \in {AddProduct(acc,
                                 IntMul(row[numberLower],
                                        numberFailingCards(numberCardsLeft,
                                                           numberLower)))}} :
         TRUE

\* probabilities[n] = sums[n] / permutations[n] for n < size - 2.
StoreInitial(probabilities, permutations, size, sums) ==
  <<[n \in DOMAIN probabilities |->
       IF n < size - 2
       THEN QCanon(sums[n][1], ULongOf(permutations[n]))
       ELSE probabilities[n]],
    \E n \in DOMAIN sums : sums[n][2]>>

\* <<probabilities, overflowed>>
calculateInitialProbabilities(matrix, probabilities, permutations, size) ==
  StoreInitial(probabilities, permutations, size,
               [n \in 0..(size - 3) |->
                  FailingSum(matrix[n], size - n, 0,
                             <<[neg |-> FALSE, mag |-> <<>>], FALSE>>)])

\* probabilities[last] = sum / numberShuffles, sum as <<value, overflowed>>.
StoreFinal(probabilities, last, sum, numberShuffles) ==
  <<[probabilities EXCEPT ![last] =
       QCanon(ZOfInt(sum[1]), ULongOf(numberShuffles))],
    sum[2]>>

\* A variant that counts only the paths ending with no lower card left.
calculateFinalProbabilityFirstOnly(matrix, probabilities, permutations, size) ==
  StoreFinal(probabilities, getLengthOfProbabilities(size) - 1,
             IntAdd(matrix[size - 2][0], 0),
             getNumberShuffles(permutations, size))

\* A variant that subtracts the two last path counts.
calculateFinalProbabilityDifference(matrix, probabilities, permutations, size) ==
  StoreFinal(probabilities, getLengthOfProbabilities(size) - 1,
             IntAdd(matrix[size - 2][0], -matrix[size - 2][1]),
             getNumberShuffles(permutations, size))

\* <<probabilities, overflowed>>
calculateFinalProbability(matrix, probabilities, permutations, size) ==
  StoreFinal(probabilities, getLengthOfProbabilities(size) - 1,
             IntAdd(matrix[size - 2][0], matrix[size - 2][1]),
             getNumberShuffles(permutations, size))

\* A variant that overwrites the running sum instead of adding to it.
RECURSIVE AccumulateFromLastOnly(_, _, _)
AccumulateFromLastOnly(probabilities, n, sum) ==
  IF n < 0 THEN probabilities
  ELSE CHOOSE done \in
         {AccumulateFromLastOnly(next[1], n - 1, next[2]) :
            next \in {<<[probabilities EXCEPT ![n] = QAdd(@, sum)],
                        probabilities[n]>>}} : TRUE

\* A variant that updates the running sum before adding it to the entry.
RECURSIVE AccumulateFromSumFirst(_, _, _)
AccumulateFromSumFirst(probabilities, n, sum) ==
  IF n < 0 THEN probabilities
  ELSE CHOOSE done \in
         {AccumulateFromSumFirst(
            [probabilities EXCEPT ![n] = QAdd(@, next)], n - 1, next) :
            next \in {QAdd(sum, probabilities[n])}} : TRUE

\* The loop of accumulateProbabilities from index n down to 0.
RECURSIVE AccumulateFrom(_, _, _)
AccumulateFrom(probabilities, n, sum) ==
  IF n < 0 THEN probabilities
  ELSE CHOOSE done \in
         {AccumulateFrom(next[1], n - 1, next[2]) :
            next \in {<<[probabilities EXCEPT ![n] = QAdd(@, sum)],
                        QAdd(sum, probabilities[n])>>}} : TRUE

accumulateProbabilities(probabilities, size) ==
  AccumulateFrom(probabilities, getLengthOfProbabilities(size) - 1, QZero)

\* A variant that adds to what the buffer holds instead of overwriting it.
convertAddingToBuffer(result, probabilities, size, part) ==
  [i \in DOMAIN result |->
     IF i < getLengthOfProbabilities(size)
     THEN NatAdd(result[i],
                 IF part = "num" THEN mpz_get_ui(probabilities[i].num)
                 ELSE mpz_get_ui(ZOfNat(probabilities[i].den)))
     ELSE result[i]]

\* One of the two output buffers after convertToNumeratorsAndDenominators;
\* part is "num" or "den".
convertToNumeratorsAndDenominators(result, probabilities, size, part) ==
  [i \in DOMAIN result |->
     IF i < getLengthOfProbabilities(size)
     THEN (IF part = "num" THEN mpz_get_ui(probabilities[i].num)
           ELSE mpz_get_ui(ZOfNat(probabilities[i].den)))
     ELSE result[i]]

\* calculateInitialProbabilities, calculateFinalProbability and
\* accumulateProbabilities, one after the other, on the finished tables.
ProbabilitiesFrom(matrix, permutations, size) ==
  CHOOSE done \in
    {accumulateProbabilities(final[1], size) :
       final \in
         UNION {{calculateFinalProbability(matrix, initial[1], permutations,
                                           size)} :
                  initial \in {calculateInitialProbabilities(
                                 matrix, createProbabilities(size),
                                 permutations, size)}}} : TRUE

\* What one whole call leaves in the output buffer result (part "num" or
\* "den") for numberLower in 0..size.
calculateProbabilities(result, size, numberLower, part) ==
  CHOOSE done \in
    {convertToNumeratorsAndDenominators(result, probabilities, size, part) :
       probabilities \in
         UNION {{ProbabilitiesFrom(matrix, permutations[1], size) :
                   matrix \in {calculateMatrix(createMatrix(size), size,
                                               numberLower)}} :
                  permutations \in {calculatePermutations(
                                      createPermutations(size), size)}}} :
    TRUE

\* ------------------------------------------------------------------------
\* State.
\* ------------------------------------------------------------------------
VARIABLES
  pc,                 \* where main / calculateProbabilities stands
  size, numberLower,  \* the query read by main, the arguments of the call
  matrix,             \* int** matrix (<<>> while not allocated)
  stage,              \* loop counter i of calculateMatrix
  permutations,       \* long* permutations
  probabilities,      \* mpq_t* probabilities
  numeratorsResult,   \* main's output buffers, MAX_SIZE - 1 entries each,
  denominatorsResult, \*   reused by every query
  live,               \* blocks calloc'ed by calculateProbabilities, not freed
  ub,                 \* a store or a read fell outside its block
  overflow            \* a fixed-width operation overflowed

vars == <<pc, size, numberLower, matrix, stage, permutations, probabilities,
          numeratorsResult, denominatorsResult, live, ub, overflow>>

\* Largest deck the loop specification reads besides the refused MAX_SIZE + 1.
MainMaxSize == 4

\* Queries: every deck of 3..MAX_SIZE cards, numberLower from one below to
\* one above the range 0..size the code is written for.
Sizes == 3..MAX_SIZE
NumberLowers(s) == (-1)..(s + 1)
MainSizes == (3..MainMaxSize) \cup {MAX_SIZE + 1}

ValidInput(s, nl) == s \in Sizes /\ nl \in 0..s

MatrixBlocks(s) ==
  {<<"matrix", 0>>} \cup {<<"row", i>> : i \in 0..(s - 2)}

\* main, lines 15-16: the two output buffers, zeroed by calloc.
InitBuffers ==
  /\ numeratorsResult = createProbabilitiesResult(MAX_SIZE)
  /\ denominatorsResult = createProbabilitiesResult(MAX_SIZE)

InitTables ==
  /\ matrix = <<>>
  /\ stage = 0
  /\ permutations = <<>>
  /\ probabilities = <<>>
  /\ live = {}
  /\ ub = FALSE
  /\ overflow = FALSE

\* One call of calculateProbabilities on fresh buffers.
Init ==
  /\ pc = "called"
  /\ size \in Sizes
  /\ numberLower \in NumberLowers(size)
  /\ InitBuffers
  /\ InitTables

\* Largest deck of the calls made on the whole stated precondition.
PreconditionMaxSize == 5

\* One call with size >= 2 and 0 <= numberLower <= size.
InitPrecondition ==
  /\ pc = "called"
  /\ size \in 2..PreconditionMaxSize
  /\ numberLower \in 0..size
  /\ InitBuffers
  /\ InitTables

\* main before its first scanf.
InitMain ==
  /\ pc = "idle"
  /\ size = 0
  /\ numberLower = 0
  /\ InitBuffers
  /\ InitTables

\* ------------------------------------------------------------------------
\* main (src/main.c)
\* ------------------------------------------------------------------------
\* scanf reads a query that passes assert(size <= MAX_SIZE); the call starts.
ReadQuery ==
  /\ pc = "idle"
  /\ \E s \in MainSizes : \E nl \in NumberLowers(s) :
       /\ s <= MAX_SIZE
       /\ size' = s
       /\ numberLower' = nl
  /\ pc' = "called"
  /\ UNCHANGED <<matrix, stage, permutations, probabilities, numeratorsResult,
                 denominatorsResult, live, ub, overflow>>

\* scanf reads a query with size > MAX_SIZE: the assertion aborts.
AssertFails ==
  /\ pc = "idle"
  /\ \E s \in MainSizes : \E nl \in NumberLowers(s) :
       /\ s > MAX_SIZE
       /\ size' = s
       /\ numberLower' = nl
  /\ pc' = "aborted"
  /\ UNCHANGED <<matrix, stage, permutations, probabilities, numeratorsResult,
                 denominatorsResult, live, ub, overflow>>

\* scanf does not read two integers: main returns 0.
EndOfInput ==
  /\ pc = "idle"
  /\ pc' = "exited"
  /\ UNCHANGED <<size, numberLower, matrix, stage, permutations, probabilities,
                 numeratorsResult, denominatorsResult, live, ub, overflow>>

\* The loop over printOdds, then back to scanf.
PrintOdds ==
  /\ pc = "returned"
  /\ pc' = "idle"
  /\ UNCHANGED <<size, numberLower, matrix, stage, permutations, probabilities,
                 numeratorsResult, denominatorsResult, live, ub, overflow>>

\* ------------------------------------------------------------------------
\* calculateProbabilities (src/prob.c), statement by statement
\* ------------------------------------------------------------------------
CreateMatrix ==
  /\ pc = "called"
  /\ matrix' = createMatrix(size)
  /\ live' = live \cup MatrixBlocks(size)
  /\ pc' = "matrixCreated"
  /\ UNCHANGED <<size, numberLower, stage, permutations, probabilities,
                 numeratorsResult, denominatorsResult, ub, overflow>>

CreateProbabilities ==
  /\ pc = "matrixCreated"
  /\ probabilities' = createProbabilities(size)
  /\ live' = live \cup {<<"probabilities", 0>>}
  /\ pc' = "probabilitiesCreated"
  /\ UNCHANGED <<size, numberLower, matrix, stage, permutations,
                 numeratorsResult, denominatorsResult, ub, overflow>>

CreatePermutations ==
  /\ pc = "probabilitiesCreated"
  /\ permutations' = createPermutations(size)
  /\ live' = live \cup {<<"permutations", 0>>}
  /\ pc' = "permutationsCreated"
  /\ UNCHANGED <<size, numberLower, matrix, stage, probabilities,
                 numeratorsResult, denominatorsResult, ub, overflow>>

\* calculateMatrix, first statement.  A store outside row 0 is undefined
\* behaviour: the process dies, or the store misses every table and the
\* run goes on.
InitialiseFirstStage ==
  /\ pc = "permutationsCreated"
  /\ \/ /\ matrix' = initialiseFirstStage(matrix, size, numberLower)
        /\ ub' = (ub \/ FirstStageOutOfBounds(size, numberLower))
        /\ stage' = 1
        /\ pc' = "matrix"
     \/ /\ FirstStageOutOfBounds(size, numberLower)
        /\ ub' = TRUE
        /\ pc' = "crashed"
        /\ UNCHANGED <<matrix, stage>>
  /\ UNCHANGED <<size, numberLower, permutations, probabilities,
                 numeratorsResult, denominatorsResult, live, overflow>>

\* calculateMatrix, one turn of its loop.
InitialiseStage ==
  /\ pc = "matrix"
  /\ stage < size - 1
  /\ \E r \in {initialiseStage(matrix, size, stage)} :
       /\ matrix' = r[1]
       /\ overflow' = (overflow \/ r[2])
  /\ stage' = stage + 1
  /\ UNCHANGED <<pc, size, numberLower, permutations, probabilities,
                 numeratorsResult, denominatorsResult, live, ub>>

\* A store to permutations[0] of an empty table is undefined behaviour:
\* the process dies, or the store misses every table and the run goes on.
CalculatePermutations ==
  /\ pc = "matrix"
  /\ ~(stage < size - 1)
  /\ \/ /\ ~PermutationStoreOutOfBounds(size)
        /\ \E r \in {calculatePermutations(permutations, size)} :
             /\ permutations' = r[1]
             /\ overflow' = (overflow \/ r[2])
        /\ pc' = "permutationsDone"
        /\ UNCHANGED ub
     \/ /\ PermutationStoreOutOfBounds(size)
        /\ ub' = TRUE
        /\ pc' \in {"permutationsDone", "crashed"}
        /\ UNCHANGED <<permutations, overflow>>
  /\ UNCHANGED <<size, numberLower, matrix, stage, probabilities,
                 numeratorsResult, denominatorsResult, live>>

CalculateInitialProbabilities ==
  /\ pc = "permutationsDone"
  /\ \E r \in {calculateInitialProbabilities(matrix, probabilities,
                                            permutations, size)} :
       /\ probabilities' = r[1]
       /\ overflow' = (overflow \/ r[2])
  /\ pc' = "initialDone"
  /\ UNCHANGED <<size, numberLower, matrix, stage, permutations,
                 numeratorsResult, denominatorsResult, live, ub>>

\* A read of the entry before an empty table is undefined behaviour: it
\* returns a stray long; a zero makes mpq_canonicalize divide by zero.
CalculateFinalProbability ==
  /\ pc = "initialDone"
  /\ \/ /\ ~ShufflesReadOutOfBounds(size)
        /\ \E r \in {calculateFinalProbability(matrix, probabilities,
                                              permutations, size)} :
             /\ probabilities' = r[1]
             /\ overflow' = (overflow \/ r[2])
        /\ pc' = "finalDone"
        /\ UNCHANGED ub
     \/ /\ ShufflesReadOutOfBounds(size)
        /\ ub' = TRUE
        /\ \E stray \in StrayLongs :
             IF stray.mag = <<>>
             THEN /\ pc' = "crashed"
                  /\ UNCHANGED <<probabilities, overflow>>
             ELSE \E r \in {calculateFinalProbability(
                               matrix, probabilities,
                               ReadBeyond(permutations,
                                          getLengthOfPermutations(size) - 1,
                                          stray),
                               size)} :
                    /\ probabilities' = r[1]
                    /\ overflow' = (overflow \/ r[2])
                    /\ pc' = "finalDone"
  /\ UNCHANGED <<size, numberLower, matrix, stage, permutations,
                 numeratorsResult, denominatorsResult, live>>

AccumulateProbabilities ==
  /\ pc = "finalDone"
  /\ probabilities' = accumulateProbabilities(probabilities, size)
  /\ pc' = "accumulated"
  /\ UNCHANGED <<size, numberLower, matrix, stage, permutations,
                 numeratorsResult, denominatorsResult, live, ub, overflow>>

ConvertToNumeratorsAndDenominators ==
  /\ pc = "accumulated"
  /\ numeratorsResult' =
       convertToNumeratorsAndDenominators(numeratorsResult, probabilities,
                                          size, "num")
  /\ denominatorsResult' =
       convertToNumeratorsAndDenominators(denominatorsResult, probabilities,
                                          size, "den")
  /\ pc' = "converted"
  /\ UNCHANGED <<size, numberLower, matrix, stage, permutations,
                 probabilities, live, ub, overflow>>

\* free(matrix): the array of row pointers only.
FreeMatrix ==
  /\ pc = "converted"
  /\ matrix' = <<>>
  /\ stage' = 0
  /\ live' = live \ {<<"matrix", 0>>}
  /\ pc' = "matrixFreed"
  /\ UNCHANGED <<size, numberLower, permutations, probabilities,
                 numeratorsResult, denominatorsResult, ub, overflow>>

FreeProbabilities ==
  /\ pc = "matrixFreed"
  /\ probabilities' = <<>>
  /\ live' = live \ {<<"probabilities", 0>>}
  /\ pc' = "probabilitiesFreed"
  /\ UNCHANGED <<size, numberLower, matrix, stage, permutations,
                 numeratorsResult, denominatorsResult, ub, overflow>>

FreePermutations ==
  /\ pc = "probabilitiesFreed"
  /\ permutations' = <<>>
  /\ live' = live \ {<<"permutations", 0>>}
  /\ pc' = "returned"
  /\ UNCHANGED <<size, numberLower, matrix, stage, probabilities,
                 numeratorsResult, denominatorsResult, ub, overflow>>

Call ==
  \/ CreateMatrix
  \/ CreateProbabilities
  \/ CreatePermutations
  \/ InitialiseFirstStage
  \/ InitialiseStage
  \/ CalculatePermutations
  \/ CalculateInitialProbabilities
  \/ CalculateFinalProbability
  \/ AccumulateProbabilities
  \/ ConvertToNumeratorsAndDenominators
  \/ FreeMatrix
  \/ FreeProbabilities
  \/ FreePermutations

Next == Call

NextMain ==
  \/ ReadQuery
  \/ AssertFails
  \/ EndOfInput
  \/ PrintOdds
  \/ Call

Spec == Init /\ [][Next]_vars

SpecMain == InitMain /\ [][NextMain]_vars

\* One call on every input the stated precondition admits.
SpecPrecondition == InitPrecondition /\ [][Next]_vars

\* ------------------------------------------------------------------------
\* The game itself, card by card, as the yardstick for the tables: a deck
\* of labelled cards 0..size in rank order, of which the card numberLower
\* is the one last played and the other size cards remain (numberLower of
\* them rank below it).
\* ------------------------------------------------------------------------
\* Largest deck whose deals are enumerated.
BruteMaxSize == 7

Deck(s, nl) == (0..s) \ {nl}

LowerCount(rem, last) == Cardinality({c \in rem : c < last})

\* The predictor forecasts "higher" iff numberHigher >= numberLower.
ForecastsHigher(rem, last) ==
  Cardinality(rem) - LowerCount(rem, last) >= LowerCount(rem, last)

PredictionCorrect(rem, last, c) == (c > last) <=> ForecastsHigher(rem, last)

RECURSIVE Factorial(_)
Factorial(n) == IF n <= 1 THEN 1 ELSE n * Factorial(n - 1)

\* Number of ordered deals of d cards from rem after the card last, every
\* one of them forecast correctly, that leave t cards below the last card
\* dealt; DealsToFrom runs over the candidate next cards c..top.
RECURSIVE DealsTo(_, _, _, _, _), DealsToFrom(_, _, _, _, _, _)
DealsTo(rem, last, d, t, top) ==
  IF d = 0 THEN (IF LowerCount(rem, last) = t THEN 1 ELSE 0)
  ELSE DealsToFrom(rem, last, d, t, 0, top)

DealsToFrom(rem, last, d, t, c, top) ==
  IF c > top THEN 0
  ELSE (IF c \in rem /\ PredictionCorrect(rem, last, c)
        THEN DealsTo(rem \ {c}, c, d - 1, t, top) ELSE 0)
       + DealsToFrom(rem, last, d, t, c + 1, top)

\* Number of complete orders of dealing rem after the card last in which
\* the next d deals are all forecast correctly.
RECURSIVE OrdersCorrect(_, _, _, _), OrdersCorrectFrom(_, _, _, _, _)
OrdersCorrect(rem, last, d, top) ==
  IF d = 0 THEN Factorial(Cardinality(rem))
  ELSE OrdersCorrectFrom(rem, last, d, 0, top)

OrdersCorrectFrom(rem, last, d, c, top) ==
  IF c > top THEN 0
  ELSE (IF c \in rem /\ PredictionCorrect(rem, last, c)
        THEN OrdersCorrect(rem \ {c}, c, d - 1, top) ELSE 0)
       + OrdersCorrectFrom(rem, last, d, c + 1, top)

\* Number of complete orders of dealing rem after the card last in which
\* the next d deals are forecast correctly and the deal after them wrongly.
RECURSIVE OrdersFailing(_, _, _, _), OrdersFailingFrom(_, _, _, _, _)
OrdersFailing(rem, last, d, top) ==
  IF d = 0
  THEN Cardinality({c \in rem : ~PredictionCorrect(rem, last, c)})
       * Factorial(Cardinality(rem) - 1)
  ELSE OrdersFailingFrom(rem, last, d, 0, top)

OrdersFailingFrom(rem, last, d, c, top) ==
  IF c > top THEN 0
  ELSE (IF c \in rem /\ PredictionCorrect(rem, last, c)
        THEN OrdersFailing(rem \ {c}, c, d - 1, top) ELSE 0)
       + OrdersFailingFrom(rem, last, d, c + 1, top)

\* The rational a/b equals count/total (cross-multiplied).
SameFraction(a, b, count, total) ==
  NatMul(a, NatOf(total)) = NatMul(NatOf(count), b)

\* ------------------------------------------------------------------------
\* Claims.
\* ------------------------------------------------------------------------
Valid == ValidInput(size, numberLower)

\* calculateMatrix has built the whole table.
MatrixBuilt == pc = "matrix" /\ stage = size - 1

\* convertToNumeratorsAndDenominators has written the output buffers.
Converted ==
  pc \in {"converted", "matrixFreed", "probabilitiesFreed", "returned"}

Q(n, d) == [num |-> [neg |-> FALSE, mag |-> NatOf(n)], den |-> NatOf(d)]

\* C1: size = 3, numberLower = 1 gives stage-0 path counts [0, 1, 1],
\* stage-1 path counts [1, 2], permutation table [6], fail fraction 1/6 at
\* index 0, final fraction 1/2, and exactly the two pairs (2, 3), (1, 2).
C1_WorkedScenario ==
  (size = 3 /\ numberLower = 1) =>
    /\ pc = "matrix" => matrix[0] = [i \in 0..2 |-> IF i = 0 THEN 0 ELSE 1]
    /\ MatrixBuilt => matrix[1] = [i \in 0..1 |-> i + 1]
    /\ pc = "permutationsDone" =>
         permutations = [i \in 0..0 |-> [neg |-> FALSE, mag |-> <<6>>]]
    /\ pc = "initialDone" => probabilities[0] = Q(1, 6)
    /\ pc = "finalDone" =>
         probabilities = [i \in 0..1 |-> IF i = 0 THEN Q(1, 6) ELSE Q(1, 2)]
    /\ pc = "accumulated" =>
         probabilities = [i \in 0..1 |-> IF i = 0 THEN Q(2, 3) ELSE Q(1, 2)]
    /\ Converted =>
         /\ getLengthOfProbabilities(size) = 2
         /\ numeratorsResult[0] = <<2>> /\ denominatorsResult[0] = <<3>>
         /\ numeratorsResult[1] = <<1>> /\ denominatorsResult[1] = <<2>>
         /\ \A i \in 2..(MAX_SIZE - 2) :
              numeratorsResult[i] = <<>> /\ denominatorsResult[i] = <<>>

C1_Witness == size = 3 /\ numberLower = 1 /\ pc = "returned"

\* C2 as stated: for decks of 3..BruteMaxSize cards, entry n of the result
\* is the fraction of the orders of dealing the deck in which the predictor
\* is right at every stage up to and including stage n+1.
C2_CorrectThroughNextStage ==
  (pc = "returned" /\ Valid /\ size <= BruteMaxSize) =>
    \A n \in 0..(size - 2) :
      SameFraction(numeratorsResult[n], denominatorsResult[n],
                   OrdersCorrect(Deck(size, numberLower), numberLower, n + 2,
                                 size),
                   Factorial(size))

\* C2 (amended): for decks of 3..BruteMaxSize cards, entry n of the result
\* is the fraction of the orders of dealing the deck in which the predictor
\* is right at every stage up to and including stage n.
C2_CorrectThroughStage ==
  (pc = "returned" /\ Valid /\ size <= BruteMaxSize) =>
    \A n \in 0..(size - 2) :
      SameFraction(numeratorsResult[n], denominatorsResult[n],
                   OrdersCorrect(Deck(size, numberLower), numberLower, n + 1,
                                 size),
                   Factorial(size))

\* A deck of BruteMaxSize cards has been answered, with a first entry
\* strictly between 0 and 1.
C2_Witness ==
  /\ pc = "returned" /\ Valid /\ size = BruteMaxSize
  /\ numeratorsResult[0] # <<>>
  /\ numeratorsResult[0] # denominatorsResult[0]

\* C3: for decks of 3..BruteMaxSize cards and numberLower in 0..size, when
\* calculateMatrix has built the table, every entry matrix[s][t] is the
\* number of ordered deals of s+1 cards from the initial state in which the
\* predictor was right at each deal and t undealt cards rank below the last
\* card dealt.
C3_PathCountsAreDeals ==
  (MatrixBuilt /\ Valid /\ size <= BruteMaxSize) =>
    \A s \in 0..(size - 2) : \A t \in 0..(size - s - 1) :
      matrix[s][t] = DealsTo(Deck(size, numberLower), numberLower, s + 1, t,
                             size)

\* A table for a deck of BruteMaxSize cards, both parities of the case
\* split used, with an entry above 1.
C3_Witness ==
  /\ MatrixBuilt /\ Valid /\ size = BruteMaxSize
  /\ \E s \in 1..(size - 2) : \E t \in 0..(size - s - 1) : matrix[s][t] > 1

RECURSIVE SumInts(_, _, _)
SumInts(row, lo, hi) ==
  IF lo > hi THEN 0 ELSE row[lo] + SumInts(row, lo + 1, hi)

\* Sum of the rationals num[i]/den[i] (num, den Nats) for i in lo..hi.
RECURSIVE SumFractions(_, _, _, _)
SumFractions(num, den, lo, hi) ==
  IF lo > hi THEN QZero
  ELSE QAdd(QCanon(ZOfNat(num[lo]), den[lo]),
            SumFractions(num, den, lo + 1, hi))

\* (sum of matrix[0]) / size: the chance that the first forecast is right.
FirstForecastRight == QCanon(ZOfInt(SumInts(matrix[0], 0, size - 1)), NatOf(size))

\* C4 as stated: for valid input the reported probabilities sum to
\* (sum over i of pathCount[0][i]) / size.
C4_ReportedSumIsFirstForecast ==
  (pc = "converted" /\ Valid) =>
    SumFractions(numeratorsResult, denominatorsResult, 0, size - 2)
      = FirstForecastRight

\* C4 (amended): for valid input the probabilities as they stand before
\* accumulateProbabilities (the fail fractions and the final fraction) sum
\* to (sum over i of pathCount[0][i]) / size.
C4_MassConservation ==
  (pc = "finalDone" /\ Valid) =>
    SumFractions([n \in 0..(size - 2) |-> probabilities[n].num.mag],
                 [n \in 0..(size - 2) |-> probabilities[n].den],
                 0, size - 2)
      = FirstForecastRight

\* A valid run of the largest deck stands before accumulateProbabilities
\* with a non-zero fail fraction.
C4_Witness ==
  /\ pc = "finalDone" /\ Valid /\ size = MAX_SIZE
  /\ probabilities[0].num.mag # <<>>

\* C5 as stated: with numberLower outside 0..size the call writes neither
\* the path-count table nor the permutation table nor the output buffers,
\* and does not return as if it had answered.
C5_InvalidInputRejected ==
  ~Valid =>
    /\ pc # "returned"
    /\ DOMAIN matrix # {} => matrix = createMatrix(size)
    /\ DOMAIN permutations # {} => permutations = createPermutations(size)
    /\ numeratorsResult = createProbabilitiesResult(MAX_SIZE)
    /\ denominatorsResult = createProbabilitiesResult(MAX_SIZE)

\* C6: for valid input the reported vector is non-increasing:
\* result[n] >= result[n+1] for n in 0..size-3.
C6_NonIncreasing ==
  (Converted /\ Valid) =>
    \A n \in 0..(size - 3) :
      NatLeq(NatMul(numeratorsResult[n + 1], denominatorsResult[n]),
             NatMul(numeratorsResult[n], denominatorsResult[n + 1]))

\* A valid answer with a strict decrease between two entries.
C6_Witness ==
  /\ Converted /\ Valid
  /\ \E n \in 0..(size - 3) :
       ~NatLeq(NatMul(numeratorsResult[n], denominatorsResult[n + 1]),
               NatMul(numeratorsResult[n + 1], denominatorsResult[n]))

\* C7: for valid input every reported pair has
\* 0 <= numerator <= denominator.
C7_InUnitInterval ==
  (Converted /\ Valid) =>
    \A n \in 0..(size - 2) :
      /\ NatLeq(<<>>, numeratorsResult[n])
      /\ NatLeq(numeratorsResult[n], denominatorsResult[n])

\* A valid answer holding both a probability of 1 and one below 1.
C7_Witness ==
  /\ Converted /\ Valid
  /\ numeratorsResult[0] = denominatorsResult[0]
  /\ NatCmp(numeratorsResult[size - 2], denominatorsResult[size - 2]) < 0

\* C8: for decks of 3..MAX_SIZE cards and numberLower in 0..size no
\* fixed-width operation overflows (no int sum or product, no long product
\* or sum), and every numerator and denominator handed to the exporter is
\* at most 2^64 - 1.
C8_NoOverflow ==
  Valid =>
    /\ ~overflow
    /\ \A i \in DOMAIN permutations :
         ~permutations[i].neg /\ NatLeq(permutations[i].mag, LONG_MAX)
    /\ \A s \in DOMAIN matrix : \A t \in DOMAIN matrix[s] :
         0 <= matrix[s][t] /\ matrix[s][t] <= INT_MAX
    /\ \A i \in DOMAIN probabilities :
         /\ NatLeq(probabilities[i].num.mag, ULONG_MAX)
         /\ NatLeq(probabilities[i].den, ULONG_MAX)

\* The largest deck answered, its last permutation count 13! beyond int.
C8_Witness ==
  /\ pc = "converted" /\ Valid /\ size = MAX_SIZE
  /\ permutations[MAX_SIZE - 3].mag = <<800, 2702, 62>>
  /\ \E i \in 0..(size - 2) : NatCmp(denominatorsResult[i], NatOf(INT_MAX)) > 0

\* C9: in main's loop, on buffers reused from query to query, a call that
\* returns for a valid (size, numberLower), no earlier store having fallen
\* outside its block, leaves in indices 0..size-2 of both buffers exactly
\* what a call with the same two inputs leaves on fresh buffers: the
\* output is a function of the two inputs alone.
C9_OutputDependsOnInputsOnly ==
  (pc = "returned" /\ Valid /\ ~ub) =>
    /\ \E fresh \in {calculateProbabilities(
                       createProbabilitiesResult(MAX_SIZE), size,
                       numberLower, "num")} :
         \A i \in 0..(size - 2) : numeratorsResult[i] = fresh[i]
    /\ \E fresh \in {calculateProbabilities(
                       createProbabilitiesResult(MAX_SIZE), size,
                       numberLower, "den")} :
         \A i \in 0..(size - 2) : denominatorsResult[i] = fresh[i]

\* A query for 3 cards has returned on buffers that still hold, past its
\* own entries, the answer to an earlier query for a larger deck, and whose
\* first entries differ from that earlier answer's.
C9_Witness ==
  /\ pc = "returned" /\ Valid /\ ~ub /\ size = 3
  /\ numeratorsResult[2] # <<>>
  /\ denominatorsResult[2] # <<>>

\* C10: for decks of 3..BruteMaxSize cards, before accumulateProbabilities
\* runs, probabilities[n] for n in 0..size-3 is the fraction of orders in
\* which the predictor is right at stages 0..n and wrong at stage n+1,
\* which is (sum over l of matrix[n][l] * min(l, size-n-1-l)) /
\* permutations[n]; and probabilities[size-2] is the fraction of orders in
\* which it is right at every stage 0..size-2, which is
\* (matrix[size-2][0] + matrix[size-2][1]) / permutations[size-3].
RECURSIVE MinorityWeighted(_, _, _)
MinorityWeighted(row, left, l) ==
  IF l > left THEN 0
  ELSE row[l] * (IF l <= left - l THEN l ELSE left - l)
       + MinorityWeighted(row, left, l + 1)

C10_StageFractions ==
  (pc = "finalDone" /\ Valid /\ size <= BruteMaxSize) =>
    /\ \A n \in 0..(size - 3) :
         /\ ~probabilities[n].num.neg
         /\ SameFraction(probabilities[n].num.mag, probabilities[n].den,
                         OrdersFailing(Deck(size, numberLower), numberLower,
                                       n + 1, size),
                         Factorial(size))
         /\ SameFraction(probabilities[n].num.mag, probabilities[n].den,
                         MinorityWeighted(matrix[n], size - n - 1, 0),
                         Factorial(size) \div Factorial(size - n - 2))
    /\ ~probabilities[size - 2].num.neg
    /\ SameFraction(probabilities[size - 2].num.mag,
                    probabilities[size - 2].den,
                    OrdersCorrect(Deck(size, numberLower), numberLower,
                                  size - 1, size),
                    Factorial(size))
    /\ SameFraction(probabilities[size - 2].num.mag,
                    probabilities[size - 2].den,
                    matrix[size - 2][0] + matrix[size - 2][1],
                    Factorial(size))

\* A deck of BruteMaxSize cards stands before accumulateProbabilities with
\* a non-zero fail fraction at the first and at the last fail index.
C10_Witness ==
  /\ pc = "finalDone" /\ Valid /\ size = BruteMaxSize
  /\ probabilities[0].num.mag # <<>>
  /\ probabilities[size - 3].num.mag # <<>>

\* ------------------------------------------------------------------------
\* C11: for every input with size >= 2 and 0 <= numberLower <= size, no
\* access of the call to the permutation table or to a row of the
\* path-count table falls outside the allocated block.
\* ------------------------------------------------------------------------
C11_AccessesInBounds ==
  (size >= 2 /\ numberLower \in 0..size) => ~ub

\* ------------------------------------------------------------------------
\* C12: when calculateProbabilities returns, every block it allocated (the
\* outer array of the path-count table, each of its rows, the permutation
\* table, the probability vector) has been released.
\* ------------------------------------------------------------------------
C12_AllBlocksReleased ==
  (pc = "returned" /\ Valid) => live = {}

\* ------------------------------------------------------------------------
\* C13: for valid input the first reported probability is
\* max(numberLower, size - numberLower) / size in lowest terms, which is
\* (sum of row 0 of the path-count table) / size; it is 1 when numberLower
\* is 0 or size.
\* ------------------------------------------------------------------------
\* max(numberLower, size - numberLower) / size, canonical.
LargerSideOverSize ==
  QCanon(ZOfInt(IF numberLower >= size - numberLower
                THEN numberLower ELSE size - numberLower),
         NatOf(size))

C13_FirstIsLargerSide ==
  /\ (Converted /\ Valid) =>
       \E q \in {LargerSideOverSize} :
         /\ numeratorsResult[0] = q.num.mag
         /\ denominatorsResult[0] = q.den
         /\ numberLower \in {0, size} =>
              numeratorsResult[0] = <<1>> /\ denominatorsResult[0] = <<1>>
  /\ (pc = "converted" /\ Valid) => FirstForecastRight = LargerSideOverSize

\* The largest deck with 4 cards below and 9 above: 9/13 is reported first.
C13_Witness ==
  /\ pc = "converted" /\ Valid
  /\ size = MAX_SIZE /\ numberLower = 4
  /\ numeratorsResult[0] = <<9>> /\ denominatorsResult[0] = <<13>>

\* ------------------------------------------------------------------------
\* C14: for valid input every reported numerator and every reported
\* denominator is at least 1, and the last row of the path-count table has
\* a non-zero sum, so printOdds divides by neither.
\* ------------------------------------------------------------------------
C14_NoZeroReported ==
  /\ (Converted /\ Valid) =>
       \A n \in 0..(size - 2) :
         /\ NatCmp(numeratorsResult[n], <<1>>) >= 0
         /\ NatCmp(denominatorsResult[n], <<1>>) >= 0
  /\ (pc = "converted" /\ Valid) =>
       matrix[size - 2][0] + matrix[size - 2][1] > 0

\* The largest deck, evenly split: the last probability is reported with a
\* numerator of at least 1 over a denominator above 1.
C14_Witness ==
  /\ pc = "returned" /\ Valid
  /\ size = MAX_SIZE /\ numberLower = 6
  /\ NatCmp(numeratorsResult[size - 2], <<1>>) >= 0
  /\ NatCmp(denominatorsResult[size - 2], <<1>>) > 0

====
